---- MODULE Spec2Model ----
(***************************************************************************)
(* State-machine model of the Tele-Vid-Bot-Archive bot: the sqlite store   *)
(* (database/database.py), the media utilities (utils/media_utils.py) and  *)
(* the three Telethon handler modules (handlers/*.py).                     *)
(*                                                                         *)
(* Telethon dispatches every update in a task of its own; inside one task  *)
(* the registered handlers run one after the other, and a task gives up    *)
(* the event loop only at an await that suspends (respond, edit, answer,   *)
(* download_media, run_in_executor).  The database calls are synchronous.  *)
(* One action of the model is therefore the code between two suspensions;  *)
(* a handler that touches state after a suspension leaves a continuation   *)
(* in `tasks`.                                                             *)
(***************************************************************************)
EXTENDS Integers, Sequences, FiniteSets, TLC

------------------------------------------------------------------------------
(* Configuration (config.py) *)

ADMIN_ID == 1
ACCESS_PASSWORD == "secret"
\* Times are counted in minutes (TLC's integers are 32 bits wide and the
\* admin's 100 years of seconds are not): ACCESS_TIMEOUT = 3600 seconds,
\* and start_handler's expires_in = 100 * 365 * 24 * 3600 seconds.
ACCESS_TIMEOUT == 60
ADMIN_EXPIRES_IN == 100 * 365 * 24 * 60

(* Bounds of the model *)
MaxTicks == 1          \* clock advances (each by ACCESS_TIMEOUT)
MaxCategoryId == 2     \* AUTOINCREMENT values handed out for categories
MaxVideoId == 2        \* AUTOINCREMENT values handed out for videos
MaxUuid == 1           \* uuid4 file names handed out
MaxTasks == 2          \* suspended handler tasks at one time
MaxUrlLen == 4         \* length of the generated is_valid_url arguments
MaxSide == 322         \* width and height of a decoded frame, in pixels
MaxFrames == 2         \* CAP_PROP_FRAME_COUNT of a video

Users == {1, 2}
\* Python's None, also "key not in dict" for the user_states dictionaries
None == "None"

------------------------------------------------------------------------------
(* Strings: Python's str operations used by the handlers *)

\* str.startswith(prefix)
startswith(s, prefix) ==
    /\ Len(s) >= Len(prefix)
    /\ SubSeq(s, 1, Len(prefix)) = prefix

Whitespace == {" "}

RECURSIVE lstrip(_)
lstrip(s) ==
    IF Len(s) > 0 /\ SubSeq(s, 1, 1) \in Whitespace
    THEN lstrip(SubSeq(s, 2, Len(s)))
    ELSE s

RECURSIVE rstrip(_)
rstrip(s) ==
    IF Len(s) > 0 /\ SubSeq(s, Len(s), Len(s)) \in Whitespace
    THEN rstrip(SubSeq(s, 1, Len(s) - 1))
    ELSE s

\* str.strip()
strip(s) == rstrip(lstrip(s))

------------------------------------------------------------------------------
VARIABLES
    now,            \* int(time.time())
    foreign_keys,   \* sqlite's foreign_keys setting of a fresh connection
    users,          \* table users: id -> access_until, None when no row
    categories,     \* table categories: set of rows [id, name]
    videos,         \* table videos: set of rows
    cat_seq,        \* sqlite_sequence of categories (AUTOINCREMENT)
    vid_seq,        \* sqlite_sequence of videos (AUTOINCREMENT)
    files,          \* paths present under VIDEO_DIR and THUMBNAIL_DIR
    uuid_seq,       \* uuid4 names handed out so far
    auth_states,    \* auth_handler.user_states
    cat_states,     \* category_handler.user_states
    vid_states,     \* video_handler.user_states
    tasks,          \* suspended handler tasks
    observe,        \* whether this run records the observers below
    actor,          \* observer: the sender of the event handled last
    event,          \* observer: that event (button data or message) and
                    \* the message handler that acted on it
    removals,       \* observer: paths the handler run last tried to remove
    sent,           \* observer: video entries the handler run last sent
    arg,            \* the argument of a call of is_valid_url
    ret             \* its return value, <<>> before the call

store == <<users, categories, videos, cat_seq, vid_seq>>
disk == <<files, uuid_seq>>
conv == <<auth_states, cat_states, vid_states>>
observers == <<observe, actor, event, removals, sent>>
call == <<arg, ret>>
vars == <<now, foreign_keys, store, disk, conv, tasks, observers, call>>

\* A step that handles neither a click nor a message (a resumption after a
\* download, the clock)
NoEvent == [token |-> "", text |-> "", media |-> "", handler |-> 0, answer |-> ""]

\* Every step records whose event it handled, which event, what it tried to
\* remove and the video entries it sent (only in runs that observe: the
\* program itself keeps no such record).
Record(user_id, ev, paths, entries) ==
    /\ observe' = observe
    /\ actor' = IF observe THEN user_id ELSE 0
    /\ event' = IF observe THEN ev ELSE NoEvent
    /\ removals' = IF observe THEN paths ELSE {}
    /\ sent' = IF observe THEN entries ELSE <<>>
    /\ UNCHANGED call

Observed(user_id, paths, entries) == Record(user_id, NoEvent, paths, entries)

Observe(user_id, paths) == Observed(user_id, paths, <<>>)

\* events.CallbackQuery: event.data of the button clicked
Clicked(user_id, token, paths, entries) ==
    Record(user_id, [NoEvent EXCEPT !.token = token], paths, entries)

Click(user_id, token, paths) == Clicked(user_id, token, paths, <<>>)

\* A click whose handler tells the user how the operation went: answer is
\* "success" for its success message, "error" for its error message,
\* "not_found" for "Video not found", "confirm" for a confirmation prompt
\* and "expired" for "Access expired. Please restart the bot with /start."
Answered(user_id, token, answer, paths) ==
    Record(user_id, [NoEvent EXCEPT !.token = token, !.answer = answer], paths, <<>>)

\* events.NewMessage: the message, the handler h that acts on it in this
\* step (0: none does) and what message_handler (lines 68-75) and category
\* on_message (lines 208-234) answer: "success", "error", "invalid" for an
\* empty name
Message(user_id, msg, h) ==
    LET answer ==
            CASE h = 2 -> IF msg.text = ACCESS_PASSWORD THEN "success" ELSE "error"
              [] h = 3 -> IF strip(msg.text) = "" THEN "invalid"
                          ELSE IF categories' # categories THEN "success"
                          ELSE "error"
              [] OTHER -> ""
    IN  Record(user_id, [token |-> "", text |-> msg.text, media |-> msg.media,
                         handler |-> h, answer |-> answer], {}, <<>>)

------------------------------------------------------------------------------
(* database/database.py.  A write may fail with sqlite3.Error (db_ok = FALSE:
   nothing is committed and the function returns its failure value); the
   reads are taken to succeed.  The column users.username is never read and
   is left out. *)

\* get_connection: sqlite3.connect gives a connection whose foreign_keys
\* setting is the library's default; the PRAGMA of init_db (line 56) acts on
\* init_db's own connection only, which is closed at line 78.
get_connection == foreign_keys

\* get_user: the set holding the row of user_id, empty when there is none
get_user(user_id) ==
    {[id |-> u, access_until |-> users[u]] : u \in DOMAIN users \cap {user_id}}

\* save_user_access: INSERT OR REPLACE with access_until = now + expires_in;
\* the value of the users table afterwards (db_ok: no sqlite3.Error)
save_user_access(user_id, expires_in, db_ok) ==
    IF db_ok
    THEN [u \in DOMAIN users \cup {user_id} |->
             IF u = user_id THEN now + expires_in ELSE users[u]]
    ELSE users

\* check_user_access with the comparison of line 119 as >=: a row would
\* still count at the very second it expires
check_user_access_inclusive(user_id) ==
    IF get_user(user_id) = {}
    THEN FALSE
    ELSE \A user \in get_user(user_id) : user.access_until >= now

\* check_user_access
check_user_access(user_id) ==
    IF get_user(user_id) = {}
    THEN FALSE
    ELSE \A user \in get_user(user_id) : user.access_until > now

\* get_all_categories (the rows; ORDER BY name matters for display only)
get_all_categories == categories

\* add_category on a table whose name column is not UNIQUE
add_category_ok_not_unique(name, db_ok) == db_ok

\* add_category: the new row id, None on sqlite3.Error (UNIQUE violated,
\* or the database failing)
add_category_ok(name, db_ok) ==
    /\ db_ok
    /\ \A c \in categories : c.name # name

add_category_rows(name, db_ok) ==
    IF add_category_ok(name, db_ok)
    THEN categories \cup {[id |-> cat_seq + 1, name |-> name]}
    ELSE categories

add_category_seq(name, db_ok) ==
    IF add_category_ok(name, db_ok) THEN cat_seq + 1 ELSE cat_seq

\* delete_category: the videos of the category read before the DELETE
\* (returned for file deletion), [] on sqlite3.Error
delete_category_result(category_id, db_ok) ==
    IF db_ok THEN {v \in videos : v.category_id = category_id} ELSE {}

delete_category_rows(category_id, db_ok) ==
    IF db_ok THEN {c \in categories : c.id # category_id} ELSE categories

\* ON DELETE CASCADE acts only on a connection with foreign_keys ON, and
\* only when a category row is deleted.
delete_category_videos(category_id, db_ok) ==
    IF /\ db_ok
       /\ get_connection
       /\ \E c \in categories : c.id = category_id
    THEN {v \in videos : v.category_id # category_id}
    ELSE videos

\* add_video on a table without the NOT NULL constraints
add_video_ok_nullable(title, video_type, path_or_url, category_id, db_ok) ==
    /\ db_ok
    /\ get_connection => \E c \in categories : c.id = category_id

\* add_video: NOT NULL on title, type and path_or_url; the foreign key is
\* checked only on a connection with foreign_keys ON
add_video_ok(title, video_type, path_or_url, category_id, db_ok) ==
    /\ db_ok
    /\ title # None
    /\ video_type # None
    /\ path_or_url # None
    /\ get_connection => \E c \in categories : c.id = category_id

add_video_rows(title, video_type, path_or_url, category_id, thumbnail_path, db_ok) ==
    IF add_video_ok(title, video_type, path_or_url, category_id, db_ok)
    THEN videos \cup {[id |-> vid_seq + 1, title |-> title, type |-> video_type,
                       path_or_url |-> path_or_url, category_id |-> category_id,
                       thumbnail_path |-> thumbnail_path]}
    ELSE videos

add_video_seq(title, video_type, path_or_url, category_id, db_ok) ==
    IF add_video_ok(title, video_type, path_or_url, category_id, db_ok)
    THEN vid_seq + 1
    ELSE vid_seq

\* get_videos_by_category
get_videos_by_category(category_id) ==
    {v \in videos : v.category_id = category_id}

\* get_video: the set holding the row, empty when there is none
get_video(video_id) == {v \in videos : v.id = video_id}

\* delete_video: the row read before the DELETE, nothing on sqlite3.Error
delete_video_result(video_id, db_ok) ==
    IF db_ok THEN get_video(video_id) ELSE {}

delete_video_rows(video_id, db_ok) ==
    IF db_ok THEN {v \in videos : v.id # video_id} ELSE videos

------------------------------------------------------------------------------
(* utils/media_utils.py *)

VIDEO_DIR == "DATA/videos"
THUMBNAIL_DIR == "DATA/thumbnails"

\* save_video_file, lines 33-34: f"{uuid.uuid4().hex}.mp4" under VIDEO_DIR;
\* the uuid4 of the n-th file stored is written n
video_path_of(n) == VIDEO_DIR \o "/" \o ToString(n) \o ".mp4"

\* os.path.basename
RECURSIVE basename(_)
basename(path) ==
    IF \E i \in 1..Len(path) : SubSeq(path, i, i) = "/"
    THEN basename(SubSeq(path, 2, Len(path)))
    ELSE path

\* generate_thumbnail, lines 93-94
thumbnail_path_of(video_path) ==
    THUMBNAIL_DIR \o "/" \o basename(video_path) \o ".jpg"

\* is_valid_url without lines 187-188: the length test on the text as sent
is_valid_url_no_prefix(url) == IF Len(url) < 5 THEN FALSE ELSE TRUE

\* is_valid_url
is_valid_url(url) ==
    LET url1 == IF ~(startswith(url, "http://") \/ startswith(url, "https://"))
                THEN "https://" \o url
                ELSE url
    IN  IF Len(url1) < 5 THEN FALSE ELSE TRUE

\* generate_thumbnail._generate, line 133
max_dim == 320

\* _generate, lines 135-138: (width, height) handed to cv2.resize; int()
\* of a positive quotient is its floor
new_size(width, height) ==
    IF height > width
    THEN [width |-> (max_dim * width) \div height, height |-> max_dim]
    ELSE [width |-> max_dim, height |-> (max_dim * height) \div width]

\* _generate on a video of total_frames frames whose frames are width x
\* height: the frame it reads, the size it asks for and whether a
\* thumbnail is written.  cv2.resize raises on a size with a zero, which
\* the except clause of line 155 turns into None.
generate(total_frames, width, height) ==
    LET size == new_size(width, height)
    IN  IF total_frames = 0
        THEN [made |-> FALSE, frame |-> 0, width |-> 0, height |-> 0]
        ELSE [made |-> size.width >= 1 /\ size.height >= 1,
              frame |-> total_frames \div 2,
              width |-> size.width, height |-> size.height]

\* delete_video_files(video) on the directory contents fs, where os.remove
\* raises on the paths in failing: the contents afterwards, the paths whose
\* removal it attempted (os.path.exists, then os.remove when the path is
\* there), and its return value
delete_video_files(video, fs, failing) ==
    IF video.type # "file"
    THEN [files |-> fs, tried |-> {}, result |-> TRUE]
    ELSE LET video_path == video.path_or_url
             thumbnail_path == video.thumbnail_path
             thumb == thumbnail_path # None /\ thumbnail_path # ""
         IN  IF video_path \in fs /\ video_path \in failing
             THEN \* os.remove raises at line 226: on to the except clause
                  [files |-> fs, tried |-> {video_path}, result |-> FALSE]
             ELSE LET fs1 == fs \ {video_path}
                  IN  IF ~thumb
                      THEN [files |-> fs1, tried |-> {video_path}, result |-> TRUE]
                      ELSE IF thumbnail_path \in fs1 /\ thumbnail_path \in failing
                      THEN [files |-> fs1,
                            tried |-> {video_path, thumbnail_path},
                            result |-> FALSE]
                      ELSE [files |-> fs1 \ {thumbnail_path},
                            tried |-> {video_path, thumbnail_path},
                            result |-> TRUE]

------------------------------------------------------------------------------
(* Python dictionaries: the three user_states maps *)

dict_set(d, k, v) == [x \in DOMAIN d \cup {k} |-> IF x = k THEN v ELSE d[x]]
dict_del(d, k) == [x \in DOMAIN d \ {k} |-> d[x]]

\* auth_handler.py, line 14
STATE_WAITING_PASSWORD == 1
\* category_handler.py, lines 15-16
STATE_WAITING_CATEGORY_NAME == 1
CAT_STATE_CONFIRM_DELETE == 2
\* video_handler.py, lines 19-22
STATE_WAITING_TITLE == 1
STATE_WAITING_VIDEO == 2
STATE_WAITING_CATEGORY == 3
VID_STATE_CONFIRM_DELETE == 4

\* The context dictionaries.  Every read of a key is a .get or follows the
\* write of that key, so an absent key and None (0 for an id) read alike.
\* context['category_id'] (video_handler.py line 250) is written and never
\* read by any handler; the model does not keep it.
EmptyContext ==
    [title |-> None, type |-> None, path_or_url |-> None,
     thumbnail_path |-> None, video_id |-> 0]

CatState(state, category_id) == [state |-> state, category_id |-> category_id]
VidState(state, context) == [state |-> state, context |-> context]

\* check_access without lines 88-89: the admin would depend on its row
check_access_by_row(user_id) == check_user_access(user_id)

\* auth_handler.check_access
check_access(user_id) ==
    IF user_id = ADMIN_ID THEN TRUE ELSE check_user_access(user_id)

------------------------------------------------------------------------------
(* Inbound messages and suspended tasks *)

\* A suspended task: the handler (kind), the message it handles (id: the
\* event's message id, which tells two equal messages apart) and what its
\* locals hold.  A task that awaits a download holds the context dictionary
\* it read; of that dictionary only the title survives its later writes, so
\* the task keeps the title.
Task(kind, user_id, msg, pc, title, path) ==
    [kind |-> kind, user |-> user_id, id |-> msg.id, text |-> msg.text,
     media |-> msg.media, pc |-> pc, title |-> title, path |-> path]

MsgOf(t) == [id |-> t.id, text |-> t.text, media |-> t.media]

\* The NewMessage handlers in registration order (handlers/__init__.py):
\* 1 start_handler, 2 message_handler, 3 category on_message,
\* 4 video on_message.  Whether handler h does anything with msg:
\* otherwise it returns at once and the dispatch goes on to the next.
Active(h, user_id, msg) ==
    CASE h = 1 -> startswith(msg.text, "/start")
      [] h = 2 -> /\ ~(startswith(msg.text, "/") \/ user_id = ADMIN_ID)
                  /\ user_id \in DOMAIN auth_states
                  /\ auth_states[user_id] = STATE_WAITING_PASSWORD
      [] h = 3 -> /\ user_id \in DOMAIN cat_states
                  /\ cat_states[user_id].state = STATE_WAITING_CATEGORY_NAME
      [] h = 4 -> /\ user_id \in DOMAIN vid_states
                  /\ vid_states[user_id].state
                        \in {STATE_WAITING_TITLE, STATE_WAITING_VIDEO}
      [] OTHER -> FALSE

\* The first handler from `from` on that acts on msg, 0 when none does
FirstActive(user_id, msg, from) ==
    IF \E h \in from..4 : Active(h, user_id, msg)
    THEN CHOOSE h \in from..4 :
            /\ Active(h, user_id, msg)
            /\ \A g \in from..(h - 1) : ~Active(g, user_id, msg)
    ELSE 0

\* Every acting handler answers (await event.respond), which suspends the
\* task before the dispatch reaches the next handler.
Continuation(user_id, msg, h) ==
    IF h \in 1..3 THEN {Task("dispatch", user_id, msg, h + 1, None, None)} ELSE {}

\* message_handler without the comparison of line 60: any text grants
message_handler_any_text(user_id, msg, db_ok) ==
    /\ users' = save_user_access(user_id, ACCESS_TIMEOUT, db_ok)
    /\ auth_states' = dict_del(auth_states, user_id)

\* auth_handler.message_handler up to its first await: the users table
\* and the auth state afterwards
message_handler(user_id, msg, db_ok) ==
    IF msg.text = ACCESS_PASSWORD
    THEN /\ users' = save_user_access(user_id, ACCESS_TIMEOUT, db_ok)
         /\ auth_states' = dict_del(auth_states, user_id)
    ELSE UNCHANGED <<users, auth_states>>

\* category on_message with line 221 unconditional: the state is cleared
\* whether or not add_category succeeded
category_on_message_always_idle(user_id, msg, db_ok) ==
    LET category_name == strip(msg.text)
    IN  IF category_name = ""
        THEN UNCHANGED <<categories, cat_seq, cat_states>>
        ELSE /\ add_category_ok(category_name, db_ok) => cat_seq < MaxCategoryId
             /\ categories' = add_category_rows(category_name, db_ok)
             /\ cat_seq' = add_category_seq(category_name, db_ok)
             /\ cat_states' = dict_del(cat_states, user_id)

\* category on_message without the return of line 214: an empty name
\* goes on to line 221 and the state is cleared
category_on_message_blank_clears(user_id, msg, db_ok) ==
    LET category_name == strip(msg.text)
    IN  IF category_name = ""
        THEN /\ UNCHANGED <<categories, cat_seq>>
             /\ cat_states' = dict_del(cat_states, user_id)
        ELSE /\ add_category_ok(category_name, db_ok) => cat_seq < MaxCategoryId
             /\ categories' = add_category_rows(category_name, db_ok)
             /\ cat_seq' = add_category_seq(category_name, db_ok)
             /\ cat_states' = IF add_category_ok(category_name, db_ok)
                              THEN dict_del(cat_states, user_id)
                              ELSE cat_states

\* category_handler.on_message, state STATE_WAITING_CATEGORY_NAME
category_on_message(user_id, msg, db_ok) ==
    LET category_name == strip(msg.text)
    IN  IF category_name = ""
        THEN UNCHANGED <<categories, cat_seq, cat_states>>
        ELSE /\ add_category_ok(category_name, db_ok) => cat_seq < MaxCategoryId
             /\ categories' = add_category_rows(category_name, db_ok)
             /\ cat_seq' = add_category_seq(category_name, db_ok)
             /\ cat_states' = IF add_category_ok(category_name, db_ok)
                              THEN dict_del(cat_states, user_id)
                              ELSE cat_states

\* video_handler.show_category_selection: with no category it answers and,
\* after that await, clears the user's state
show_category_selection(user_id, msg) ==
    IF get_all_categories = {}
    THEN {Task("no_categories", user_id, msg, 4, None, None)}
    ELSE {}

\* SaveLink on a fresh context instead of the wizard's: the title is lost
SaveLink_untitled(user_id, context, url) ==
    VidState(STATE_WAITING_CATEGORY,
             [EmptyContext EXCEPT !.type = "link", !.path_or_url = url])

\* The link branches of video on_message: link saved, state
\* STATE_WAITING_CATEGORY
SaveLink(user_id, context, url) ==
    VidState(STATE_WAITING_CATEGORY,
             [context EXCEPT !.type = "link", !.path_or_url = url])

WebpageUrl == "https://example.com/v"

\* video_handler.on_message up to its first await: the video state
\* afterwards and the task it leaves suspended
video_on_message(user_id, msg, rest) ==
    LET state == vid_states[user_id].state
        context == vid_states[user_id].context
        title == strip(msg.text)
        url == strip(msg.text)
        link(u) ==
            /\ vid_states' = dict_set(vid_states, user_id, SaveLink(user_id, context, u))
            /\ tasks' = rest \cup show_category_selection(user_id, msg)
        nothing ==
            /\ vid_states' = vid_states
            /\ tasks' = rest
    IN  IF state = STATE_WAITING_TITLE
        THEN IF title = ""
             THEN nothing
             ELSE /\ vid_states' = dict_set(vid_states, user_id,
                        VidState(STATE_WAITING_VIDEO, [context EXCEPT !.title = title]))
                  /\ tasks' = rest
        ELSE \* STATE_WAITING_VIDEO
             IF msg.text # "" /\ msg.media = "none"
             THEN IF ~is_valid_url(url) THEN nothing ELSE link(url)
             ELSE IF msg.media = "webpage"
             THEN IF msg.text # "" /\ is_valid_url(strip(msg.text))
                  THEN link(strip(msg.text))
                  ELSE link(WebpageUrl)
             ELSE IF msg.media = "video"
             THEN \* answers "Downloading", then awaits save_video_file
                  /\ vid_states' = vid_states
                  /\ tasks' = rest \cup {Task("download", user_id, msg, 4,
                                               context.title, None)}
             ELSE nothing

\* One run of the dispatch loop from handler `from` up to the next await.
\* set_auth: the run starts with start_handler's line 42.
Dispatch(user_id, msg, from, rest, set_auth) ==
    LET h == FirstActive(user_id, msg, from)
    IN  /\ IF h = 2
           THEN \E db_ok \in BOOLEAN : message_handler(user_id, msg, db_ok)
           ELSE /\ users' = users
                /\ auth_states' =
                      IF set_auth
                      THEN dict_set(auth_states, user_id, STATE_WAITING_PASSWORD)
                      ELSE auth_states
        /\ IF h = 3
           THEN \E db_ok \in BOOLEAN : category_on_message(user_id, msg, db_ok)
           ELSE UNCHANGED <<categories, cat_seq, cat_states>>
        /\ IF h = 4
           THEN video_on_message(user_id, msg, rest)
           ELSE /\ vid_states' = vid_states
                /\ tasks' = rest \cup Continuation(user_id, msg, h)
        /\ UNCHANGED <<now, foreign_keys, videos, vid_seq, disk>>

\* auth_handler.start_handler up to its first await
start_handler(user_id, msg) ==
    /\ IF user_id = ADMIN_ID
       THEN /\ \E db_ok \in BOOLEAN :
                  users' = save_user_access(user_id, ADMIN_EXPIRES_IN, db_ok)
            /\ tasks' = tasks \cup Continuation(user_id, msg, 1)
       ELSE IF check_user_access(user_id)
       THEN /\ users' = users
            /\ tasks' = tasks \cup Continuation(user_id, msg, 1)
       ELSE /\ users' = users
            /\ tasks' = tasks \cup {Task("start_respond", user_id, msg, 1, None, None)}
    /\ UNCHANGED <<now, foreign_keys, categories, videos, cat_seq, vid_seq, disk, conv>>

------------------------------------------------------------------------------
(* Resumption of suspended tasks *)

\* a dispatch resumes at its next handler
ResumeDispatch(t) ==
    /\ t.kind = "dispatch"
    /\ Dispatch(t.user, MsgOf(t), t.pc, tasks \ {t}, FALSE)
    /\ Message(t.user, MsgOf(t), FirstActive(t.user, MsgOf(t), t.pc))

\* start_handler after its await (line 42), then the rest of the dispatch
ResumeStart(t) ==
    /\ t.kind = "start_respond"
    /\ Dispatch(t.user, MsgOf(t), 2, tasks \ {t}, TRUE)
    /\ Message(t.user, MsgOf(t), FirstActive(t.user, MsgOf(t), 2))

\* DownloadDone as it would be were the wizard abandoned on a failed
\* download: the user's state is deleted
DownloadDone_failure_resets(t, ok) ==
    /\ t.kind = "download"
    /\ IF ok
       THEN /\ uuid_seq < MaxUuid
            /\ uuid_seq' = uuid_seq + 1
            /\ files' = files \cup {video_path_of(uuid_seq + 1)}
            /\ tasks' = (tasks \ {t}) \cup
                  {Task("thumbnail", t.user, MsgOf(t), 4, t.title,
                        video_path_of(uuid_seq + 1))}
            /\ vid_states' = vid_states
       ELSE /\ UNCHANGED disk
            /\ tasks' = tasks \ {t}
            /\ vid_states' = dict_del(vid_states, t.user)
    /\ UNCHANGED <<now, foreign_keys, store, auth_states, cat_states>>
    /\ Observe(t.user, {})

\* DownloadDone as it would be were _generate called on the event loop
\* (no run_in_executor): the thumbnail is written and the state saved
\* before any other event is handled
DownloadDone_inline_thumbnail(t, ok) ==
    /\ t.kind = "download"
    /\ IF ok
       THEN LET video_path == video_path_of(uuid_seq + 1)
                context == [EmptyContext EXCEPT
                               !.title = t.title, !.type = "file",
                               !.path_or_url = video_path,
                               !.thumbnail_path = thumbnail_path_of(video_path)]
            IN  /\ uuid_seq < MaxUuid
                /\ uuid_seq' = uuid_seq + 1
                /\ files' = files \cup {video_path, thumbnail_path_of(video_path)}
                /\ vid_states' = dict_set(vid_states, t.user,
                                          VidState(STATE_WAITING_CATEGORY, context))
                /\ tasks' = (tasks \ {t}) \cup show_category_selection(t.user, MsgOf(t))
       ELSE /\ UNCHANGED <<disk, vid_states>>
            /\ tasks' = tasks \ {t}
    /\ UNCHANGED <<now, foreign_keys, store, auth_states, cat_states>>
    /\ Observe(t.user, {})

\* save_video_file, lines 47-52: download_media returns or raises.  The
\* file is there only when it succeeded; a failure returns (None, None)
\* and video on_message answers "Failed to save video file".
DownloadDone(t, ok) ==
    /\ t.kind = "download"
    /\ IF ok
       THEN /\ uuid_seq < MaxUuid
            /\ uuid_seq' = uuid_seq + 1
            /\ files' = files \cup {video_path_of(uuid_seq + 1)}
            /\ tasks' = (tasks \ {t}) \cup
                  {Task("thumbnail", t.user, MsgOf(t), 4, t.title,
                        video_path_of(uuid_seq + 1))}
       ELSE /\ UNCHANGED disk
            /\ tasks' = tasks \ {t}
    /\ UNCHANGED <<now, foreign_keys, store, conv>>
    /\ Observe(t.user, {})

\* ThumbnailDone as it would be were a failed thumbnail fatal to the
\* ingestion: the state is not advanced
ThumbnailDone_fatal(t, made) ==
    LET thumbnail_path == thumbnail_path_of(t.path)
        context == [EmptyContext EXCEPT !.title = t.title, !.type = "file",
                                        !.path_or_url = t.path,
                                        !.thumbnail_path = thumbnail_path]
    IN  /\ t.kind = "thumbnail"
        /\ files' = IF made THEN files \cup {thumbnail_path} ELSE files
        /\ vid_states' = IF made
                         THEN dict_set(vid_states, t.user,
                                       VidState(STATE_WAITING_CATEGORY, context))
                         ELSE vid_states
        /\ tasks' = (tasks \ {t}) \cup
                        (IF made THEN show_category_selection(t.user, MsgOf(t)) ELSE {})
        /\ UNCHANGED <<now, foreign_keys, store, uuid_seq, auth_states, cat_states>>
        /\ Observe(t.user, {})

\* ThumbnailDone without lines 533-534: only the thumbnail is written
\* into the context, whose type and path stay what a link left there
ThumbnailDone_thumbnail_only(t, made) ==
    LET thumbnail_path == IF made THEN thumbnail_path_of(t.path) ELSE None
        current == IF t.user \in DOMAIN vid_states
                   THEN vid_states[t.user].context
                   ELSE [EmptyContext EXCEPT !.title = t.title]
        context == [current EXCEPT !.thumbnail_path = thumbnail_path]
    IN  /\ t.kind = "thumbnail"
        /\ files' = IF made THEN files \cup {thumbnail_path} ELSE files
        /\ vid_states' = dict_set(vid_states, t.user,
                                  VidState(STATE_WAITING_CATEGORY, context))
        /\ tasks' = (tasks \ {t}) \cup show_category_selection(t.user, MsgOf(t))
        /\ UNCHANGED <<now, foreign_keys, store, uuid_seq, auth_states, cat_states>>
        /\ Observe(t.user, {})

\* generate_thumbnail's executor job returns (made: the thumbnail was
\* written, otherwise None: unopenable video, zero frames, frame read or
\* image write failure); save_video_file returns (path, thumbnail) and
\* video on_message, lines 533-540, stores them.
ThumbnailDone(t, made) ==
    LET thumbnail_path == IF made THEN thumbnail_path_of(t.path) ELSE None
        context == [EmptyContext EXCEPT !.title = t.title, !.type = "file",
                                        !.path_or_url = t.path,
                                        !.thumbnail_path = thumbnail_path]
    IN  /\ t.kind = "thumbnail"
        /\ files' = IF made THEN files \cup {thumbnail_path} ELSE files
        /\ vid_states' = dict_set(vid_states, t.user,
                                  VidState(STATE_WAITING_CATEGORY, context))
        /\ tasks' = (tasks \ {t}) \cup show_category_selection(t.user, MsgOf(t))
        /\ UNCHANGED <<now, foreign_keys, store, uuid_seq, auth_states, cat_states>>
        /\ Observe(t.user, {})

\* show_category_selection after its await, lines 598-599
NoCategoriesDone(t) ==
    /\ t.kind = "no_categories"
    /\ vid_states' = dict_del(vid_states, t.user)
    /\ tasks' = tasks \ {t}
    /\ UNCHANGED <<now, foreign_keys, store, disk, auth_states, cat_states>>
    /\ Observe(t.user, {})

\* The message id of a new event: one that no suspended task holds
NewId == CHOOSE i \in 1..MaxTasks : \A t \in tasks : t.id # i

\* A new message: start_handler when its pattern matches, then the others
NewMessage(user_id, m) ==
    LET msg == [id |-> NewId, text |-> m.text, media |-> m.media]
    IN  /\ Cardinality(tasks) < MaxTasks
        /\ IF Active(1, user_id, msg)
           THEN start_handler(user_id, msg)
           ELSE Dispatch(user_id, msg, 2, tasks, FALSE)
        /\ Message(user_id, msg, IF Active(1, user_id, msg)
                                  THEN 1
                                  ELSE FirstActive(user_id, msg, 2))

------------------------------------------------------------------------------
(* Button clicks (events.CallbackQuery): one handler per action token, each
   atomic up to its closing await *)

\* The handlers that only render a menu or a listing: on_manage_categories,
\* on_category_delete, on_manage_videos, on_video_delete, on_categories_menu
\* (and, with a row id in the data, on_delete_video_category_selected and
\* on_play_video, which change no more)
MenuTokens ==
    {"menu_manage_categories", "category_delete", "menu_manage_videos",
     "video_delete", "menu_categories"}

on_menu(user_id, token) ==
    /\ UNCHANGED <<now, foreign_keys, store, disk, conv, tasks>>
    /\ Click(user_id, token, {})

\* on_browse_category, lines 323-352: the entries sent for the rows vs, per
\* video its title and the button under it.  (The rows come ORDER BY title;
\* the model sends them by id: no handler depends on the order.  The loop
\* awaits per entry, over the rows read at line 305 before the first await:
\* what it sends is fixed when the handler starts.)
\* browse_entries with the test of line 325 dropped: every video gets the
\* "view video" button
RECURSIVE browse_entries_play(_)
browse_entries_play(vs) ==
    IF vs = {}
    THEN <<>>
    ELSE LET video == CHOOSE x \in vs : \A y \in vs : x.id <= y.id
         IN  <<[title |-> video.title, button |-> "play_video", url |-> None]>>
             \o browse_entries_play(vs \ {video})

RECURSIVE browse_entries(_)
browse_entries(vs) ==
    IF vs = {}
    THEN <<>>
    ELSE LET video == CHOOSE x \in vs : \A y \in vs : x.id <= y.id
         IN  <<[title |-> video.title,
                button |-> IF video.type = "file" THEN "play_video" ELSE "url",
                url |-> IF video.type = "file" THEN None ELSE video.path_or_url]>>
             \o browse_entries(vs \ {video})

on_browse_category_sends(user_id, category_id) ==
    IF ~check_access(user_id)
    THEN <<>>
    ELSE browse_entries(get_videos_by_category(category_id))

on_browse_category(user_id, category_id) ==
    /\ UNCHANGED <<now, foreign_keys, store, disk, conv, tasks>>
    /\ Clicked(user_id, "browse_cat_" \o ToString(category_id), {},
               on_browse_category_sends(user_id, category_id))

on_category_add(user_id) ==
    /\ cat_states' = IF ~check_access(user_id)
                     THEN cat_states
                     ELSE dict_set(cat_states, user_id,
                                   CatState(STATE_WAITING_CATEGORY_NAME, 0))
    /\ UNCHANGED <<now, foreign_keys, store, disk, auth_states, vid_states, tasks>>
    /\ Click(user_id, "category_add", {})

on_delete_category_selected(user_id, category_id) ==
    /\ cat_states' = IF ~check_access(user_id)
                     THEN cat_states
                     ELSE dict_set(cat_states, user_id,
                                   CatState(CAT_STATE_CONFIRM_DELETE, category_id))
    /\ UNCHANGED <<now, foreign_keys, store, disk, auth_states, vid_states, tasks>>
    /\ Answered(user_id, "delete_cat_" \o ToString(category_id),
                IF ~check_access(user_id) THEN "expired" ELSE "confirm", {})

\* The loop of on_confirm_delete, lines 140-141, over the rows returned
RECURSIVE delete_files_of(_, _, _)
delete_files_of(vs, fs, failing) ==
    IF vs = {}
    THEN [files |-> fs, tried |-> {}]
    ELSE LET video == CHOOSE x \in vs : \A y \in vs : x.id <= y.id
             one == delete_video_files(video, fs, failing)
             others == delete_files_of(vs \ {video}, one.files, failing)
         IN  [files |-> others.files, tried |-> one.tried \cup others.tried]

\* The paths a removal of these rows can meet
PathsOf(vs) ==
    ({v.path_or_url : v \in vs} \cup {v.thumbnail_path : v \in vs}) \cap files

on_confirm_delete(user_id, category_id, db_ok, failing) ==
    LET returned == delete_category_result(category_id, db_ok)
        cleanup == delete_files_of(returned, files, failing)
    IN  /\ failing \subseteq PathsOf(returned)
        /\ IF ~check_access(user_id)
           THEN /\ UNCHANGED <<categories, videos, files>>
                /\ Answered(user_id, "confirm_delete_" \o ToString(category_id),
                            "expired", {})
           ELSE /\ categories' = delete_category_rows(category_id, db_ok)
                /\ videos' = delete_category_videos(category_id, db_ok)
                /\ files' = cleanup.files
                /\ Answered(user_id, "confirm_delete_" \o ToString(category_id),
                            "success", cleanup.tried)
        /\ UNCHANGED <<now, foreign_keys, users, cat_seq, vid_seq, uuid_seq, conv, tasks>>

\* on_back_to_categories and on_back_to_main: both clear the category state
on_back_to_categories(user_id) ==
    /\ cat_states' = IF ~check_access(user_id)
                     THEN cat_states
                     ELSE dict_del(cat_states, user_id)
    /\ UNCHANGED <<now, foreign_keys, store, disk, auth_states, vid_states, tasks>>
    /\ Click(user_id, "back_to_categories", {})

on_back_to_main(user_id) ==
    /\ cat_states' = IF ~check_access(user_id)
                     THEN cat_states
                     ELSE dict_del(cat_states, user_id)
    /\ UNCHANGED <<now, foreign_keys, store, disk, auth_states, vid_states, tasks>>
    /\ Click(user_id, "back_to_main", {})

\* on_video_add keeping one wizard state for the bot instead of one per
\* sender (line 60 with a fixed key)
on_video_add_shared(user_id) ==
    /\ vid_states' = IF ~check_access(user_id)
                     THEN vid_states
                     ELSE dict_set(vid_states, ADMIN_ID,
                                   VidState(STATE_WAITING_TITLE, EmptyContext))
    /\ UNCHANGED <<now, foreign_keys, store, disk, auth_states, cat_states, tasks>>
    /\ Click(user_id, "video_add", {})

on_video_add(user_id) ==
    /\ vid_states' = IF ~check_access(user_id)
                     THEN vid_states
                     ELSE dict_set(vid_states, user_id,
                                   VidState(STATE_WAITING_TITLE, EmptyContext))
    /\ UNCHANGED <<now, foreign_keys, store, disk, auth_states, cat_states, tasks>>
    /\ Click(user_id, "video_add", {})

on_delete_video_selected(user_id, video_id) ==
    /\ vid_states' = IF ~check_access(user_id) \/ get_video(video_id) = {}
                     THEN vid_states
                     ELSE dict_set(vid_states, user_id,
                                   VidState(VID_STATE_CONFIRM_DELETE,
                                            [EmptyContext EXCEPT !.video_id = video_id]))
    /\ UNCHANGED <<now, foreign_keys, store, disk, auth_states, cat_states, tasks>>
    /\ Answered(user_id, "delete_video_" \o ToString(video_id),
                IF ~check_access(user_id) THEN "expired"
                ELSE IF get_video(video_id) = {} THEN "not_found"
                ELSE "confirm", {})

\* on_confirm_delete_video without lines 176-178: no access check
on_confirm_delete_video_unchecked(user_id, video_id, db_ok, failing) ==
    LET returned == delete_video_result(video_id, db_ok)
        cleanup == delete_files_of(returned, files, failing)
    IN  /\ failing \subseteq PathsOf(returned)
        /\ videos' = delete_video_rows(video_id, db_ok)
        /\ files' = cleanup.files
        /\ Click(user_id, "confirm_delete_video_" \o ToString(video_id), cleanup.tried)
        /\ UNCHANGED <<now, foreign_keys, users, categories, cat_seq, vid_seq,
                       uuid_seq, conv, tasks>>

on_confirm_delete_video(user_id, video_id, db_ok, failing) ==
    LET returned == delete_video_result(video_id, db_ok)
        cleanup == delete_files_of(returned, files, failing)
    IN  /\ failing \subseteq PathsOf(returned)
        /\ IF ~check_access(user_id)
           THEN /\ UNCHANGED <<videos, files>>
                /\ Answered(user_id, "confirm_delete_video_" \o ToString(video_id),
                            "expired", {})
           ELSE /\ videos' = delete_video_rows(video_id, db_ok)
                /\ files' = cleanup.files
                /\ Answered(user_id, "confirm_delete_video_" \o ToString(video_id),
                            IF returned # {} THEN "success" ELSE "error",
                            cleanup.tried)
        /\ UNCHANGED <<now, foreign_keys, users, categories, cat_seq, vid_seq,
                       uuid_seq, conv, tasks>>

\* on_back_to_videos as it would be did it clean up after the wizard: the
\* files of the context are removed with the state
on_back_to_videos_cleanup(user_id) ==
    /\ vid_states' = IF ~check_access(user_id)
                     THEN vid_states
                     ELSE dict_del(vid_states, user_id)
    /\ files' = IF check_access(user_id) /\ user_id \in DOMAIN vid_states
                THEN files \ {vid_states[user_id].context.path_or_url,
                              vid_states[user_id].context.thumbnail_path}
                ELSE files
    /\ UNCHANGED <<now, foreign_keys, store, uuid_seq, auth_states, cat_states, tasks>>
    /\ Click(user_id, "back_to_videos", {})

on_back_to_videos(user_id) ==
    /\ vid_states' = IF ~check_access(user_id)
                     THEN vid_states
                     ELSE dict_del(vid_states, user_id)
    /\ UNCHANGED <<now, foreign_keys, store, disk, auth_states, cat_states, tasks>>
    /\ Click(user_id, "back_to_videos", {})

\* on_category_selected storing no thumbnail (line 260 without its last
\* argument)
on_category_selected_no_thumbnail(user_id, category_id, db_ok) ==
    /\ IF ~check_access(user_id) \/ user_id \notin DOMAIN vid_states
       THEN UNCHANGED <<videos, vid_seq, vid_states>>
       ELSE LET context == vid_states[user_id].context
                title == context.title
                video_type == context.type
                path_or_url == context.path_or_url
                added == add_video_ok(title, video_type, path_or_url, category_id, db_ok)
            IN  /\ added => vid_seq < MaxVideoId
                /\ videos' = add_video_rows(title, video_type, path_or_url,
                                            category_id, None, db_ok)
                /\ vid_seq' = add_video_seq(title, video_type, path_or_url,
                                            category_id, db_ok)
                /\ vid_states' = IF added
                                 THEN dict_del(vid_states, user_id)
                                 ELSE vid_states
    /\ UNCHANGED <<now, foreign_keys, users, categories, cat_seq, disk,
                   auth_states, cat_states, tasks>>
    /\ Click(user_id, "select_category_" \o ToString(category_id), {})

on_category_selected(user_id, category_id, db_ok) ==
    /\ IF ~check_access(user_id) \/ user_id \notin DOMAIN vid_states
       THEN UNCHANGED <<videos, vid_seq, vid_states>>
       ELSE LET context == vid_states[user_id].context
                title == context.title
                video_type == context.type
                path_or_url == context.path_or_url
                thumbnail_path == context.thumbnail_path
                added == add_video_ok(title, video_type, path_or_url, category_id, db_ok)
            IN  /\ added => vid_seq < MaxVideoId
                /\ videos' = add_video_rows(title, video_type, path_or_url,
                                            category_id, thumbnail_path, db_ok)
                /\ vid_seq' = add_video_seq(title, video_type, path_or_url,
                                            category_id, db_ok)
                /\ vid_states' = IF added
                                 THEN dict_del(vid_states, user_id)
                                 ELSE vid_states
    /\ UNCHANGED <<now, foreign_keys, users, categories, cat_seq, disk,
                   auth_states, cat_states, tasks>>
    /\ Answered(user_id, "select_category_" \o ToString(category_id),
                IF ~check_access(user_id) THEN "expired"
                ELSE IF videos' # videos THEN "success"
                ELSE "error", {})

------------------------------------------------------------------------------
(* The clock, the inputs and the specification *)

\* time passes
Tick ==
    /\ now < MaxTicks * ACCESS_TIMEOUT
    /\ now' = now + ACCESS_TIMEOUT
    /\ UNCHANGED <<foreign_keys, store, disk, conv, tasks>>
    /\ Observe(0, {})

WizardTexts == {"Demo", " "}

TextMessages(texts) == {[text |-> t, media |-> "none"] : t \in texts}
MediaMessages(kinds) == {[text |-> "", media |-> m] : m \in kinds}
WebpageMessage == [text |-> WebpageUrl, media |-> "webpage"]

\* Buttons carry the id of a row that existed when they were rendered
CategoryIds == 1..cat_seq
VideoIds == 1..vid_seq

\* a database and data directories that hold nothing yet
EmptyStore ==
    /\ categories = {}
    /\ videos = {}
    /\ cat_seq = 0
    /\ vid_seq = 0
    /\ files = {}
    /\ uuid_seq = 0

NoUsers == [u \in {} |-> 0]

\* the process after start-up: the three user_states maps are empty
InitProcess ==
    /\ now = 0
    /\ auth_states = [u \in {} |-> 0]
    /\ cat_states = [u \in {} |-> CatState(0, 0)]
    /\ vid_states = [u \in {} |-> VidState(0, EmptyContext)]
    /\ tasks = {}
    /\ actor = 0
    /\ event = NoEvent
    /\ removals = {}
    /\ sent = <<>>
    /\ arg = ""
    /\ ret = <<>>

(* The events of the environment, by the users and inputs a run draws from *)

MessageBy(us, ms) == \E u \in us, m \in ms : NewMessage(u, m)
DispatchResumes == \E t \in tasks : ResumeDispatch(t)
StartResumes == \E t \in tasks : ResumeStart(t)
DownloadEnds == \E t \in tasks, ok \in BOOLEAN : DownloadDone(t, ok)
ThumbnailEnds == \E t \in tasks, made \in BOOLEAN : ThumbnailDone(t, made)
NoCategoriesResumes == \E t \in tasks : NoCategoriesDone(t)

MenuClick(us) == \E u \in us, token \in MenuTokens : on_menu(u, token)
BrowseClick(us) == \E u \in us, c \in CategoryIds : on_browse_category(u, c)
CategoryAddClick(us) == \E u \in us : on_category_add(u)
DeleteCategoryClick(us) ==
    \E u \in us, c \in CategoryIds : on_delete_category_selected(u, c)
ConfirmDeleteClick(us) ==
    \E u \in us, c \in CategoryIds, db_ok \in BOOLEAN, failing \in SUBSET files :
        on_confirm_delete(u, c, db_ok, failing)
BackToCategoriesClick(us) == \E u \in us : on_back_to_categories(u)
BackToMainClick(us) == \E u \in us : on_back_to_main(u)
VideoAddClick(us) == \E u \in us : on_video_add(u)
DeleteVideoClick(us) ==
    \E u \in us, v \in VideoIds : on_delete_video_selected(u, v)
ConfirmDeleteVideoClick(us) ==
    \E u \in us, v \in VideoIds, db_ok \in BOOLEAN, failing \in SUBSET files :
        on_confirm_delete_video(u, v, db_ok, failing)
BackToVideosClick(us) == \E u \in us : on_back_to_videos(u)
SelectCategoryClick(us) ==
    \E u \in us, c \in CategoryIds, db_ok \in BOOLEAN : on_category_selected(u, c, db_ok)

------------------------------------------------------------------------------
(* Spec: the whole program under every input.  Its state space is too large
   to exhaust; the specifications below run the same handlers under a
   narrower environment (fewer users, inputs or events) each. *)

Init ==
    /\ InitProcess
    /\ EmptyStore
    /\ users = NoUsers
    /\ foreign_keys \in BOOLEAN
    /\ observe = FALSE

AllMessages ==
    TextMessages({"/start", ACCESS_PASSWORD} \cup WizardTexts)
    \cup MediaMessages({"video", "document"}) \cup {WebpageMessage}

Next ==
    \/ MessageBy(Users, AllMessages)
    \/ DispatchResumes
    \/ StartResumes
    \/ DownloadEnds
    \/ ThumbnailEnds
    \/ NoCategoriesResumes
    \/ MenuClick(Users)
    \/ BrowseClick(Users)
    \/ CategoryAddClick(Users)
    \/ DeleteCategoryClick(Users)
    \/ ConfirmDeleteClick(Users)
    \/ BackToCategoriesClick(Users)
    \/ BackToMainClick(Users)
    \/ VideoAddClick(Users)
    \/ DeleteVideoClick(Users)
    \/ ConfirmDeleteVideoClick(Users)
    \/ BackToVideosClick(Users)
    \/ SelectCategoryClick(Users)
    \/ Tick

Spec == Init /\ [][Next]_vars

------------------------------------------------------------------------------
(* SpecAuth: access control.  Both users send /start, the password and a
   wrong password while time passes.  The users table outlives the process:
   the run may start on a table that holds an expired row for the id now
   configured as ADMIN_ID. *)

AuthTexts == {"/start", ACCESS_PASSWORD, " "}

InitAuth ==
    /\ InitProcess
    /\ EmptyStore
    /\ users \in {NoUsers, [u \in {ADMIN_ID} |-> 0]}
    /\ foreign_keys = FALSE
    /\ observe = TRUE

NextAuth ==
    \/ MessageBy(Users, TextMessages(AuthTexts))
    \/ DispatchResumes
    \/ StartResumes
    \/ Tick

SpecAuth == InitAuth /\ [][NextAuth]_vars

\* a step in which save_user_access wrote the row of u
Granted(u) ==
    /\ u \in DOMAIN users'
    /\ u \notin DOMAIN users \/ users'[u] # users[u]

\* C1: for every user but the admin, the authorization check is true
\* immediately after a successful save_user_access of that user, and it is
\* false in every state where now >= the stored access_until (a stored
\* access_until in the future is the same as being authorized).
AccessUntilExpiry ==
    /\ [](\A u \in Users \ {ADMIN_ID} : \A user \in get_user(u) :
            check_access(u) <=> ~(now >= user.access_until))
    /\ [][\A u \in Users \ {ADMIN_ID} : Granted(u) => check_access(u)']_vars

\* C1 witness: a user was granted access and the clock has reached the
\* stored access_until
AccessExpired ==
    \E u \in Users \ {ADMIN_ID} : \E user \in get_user(u) :
        /\ now >= user.access_until
        /\ user.access_until = ACCESS_TIMEOUT

\* C2: check_access is true for the admin in every reachable state,
\* whatever the users table holds for it.
AdminAlwaysAuthorized == check_access(ADMIN_ID)

\* C2 witness: the admin's /start has been handled (the task is past
\* start_handler) and the table holds no unexpired row for the admin: the
\* write failed, over no row or over an expired one
AdminWriteFailed ==
    /\ \E t \in tasks :
          t.user = ADMIN_ID /\ t.kind = "dispatch" /\ startswith(t.text, "/start")
    /\ ~check_user_access(ADMIN_ID)

\* C12: when a user other than the admin who is in STATE_WAITING_PASSWORD
\* sends the configured password, the user has left that state afterwards
\* and is authorized, with access_until = now + ACCESS_TIMEOUT.
PasswordGrantsAccess ==
    [][\A u \in Users :
          actor' = u /\ event'.handler = 2 /\ event'.text = ACCESS_PASSWORD =>
              /\ u \notin DOMAIN auth_states'
              /\ u \in DOMAIN users'
              /\ users'[u] = now + ACCESS_TIMEOUT
              /\ check_access(u)']_vars

\* C13: when a user in STATE_WAITING_PASSWORD sends a text other than the
\* configured password, the users table is unchanged, the user stays in
\* STATE_WAITING_PASSWORD and is authorized no more than before; the
\* password sent by a user who is not in STATE_WAITING_PASSWORD writes no
\* row of the users table.
WrongPasswordChangesNothing ==
    [][\A u \in Users :
          /\ actor' = u /\ event'.handler = 2 /\ event'.text # ACCESS_PASSWORD =>
                /\ users' = users
                /\ auth_states' = auth_states
                /\ u \in DOMAIN auth_states'
                /\ auth_states'[u] = STATE_WAITING_PASSWORD
                /\ ~check_access(u) => ~check_access(u)'
          /\ /\ actor' = u /\ event'.text = ACCESS_PASSWORD
             /\ ~(u \in DOMAIN auth_states /\ auth_states[u] = STATE_WAITING_PASSWORD)
             => users' = users /\ (~check_access(u) => ~check_access(u)')]_vars

\* C13 witness: message_handler has just answered a wrong password of a
\* user who is still in STATE_WAITING_PASSWORD and not authorized
WrongPasswordAnswered ==
    /\ event.handler = 2
    /\ event.text = " "
    /\ actor \in DOMAIN auth_states
    /\ ~check_access(actor)

\* C35: a user other than the admin whose auth state is
\* STATE_WAITING_PASSWORD has no access.
WaitingPasswordUnauthorized ==
    \A u \in Users \ {ADMIN_ID} :
        (u \in DOMAIN auth_states /\ auth_states[u] = STATE_WAITING_PASSWORD)
        => ~check_access(u)

------------------------------------------------------------------------------
(* SpecUrl: is_valid_url as a function, called on every string up to
   MaxUrlLen over UrlAlphabet and on the inputs of
   tests/test_url_validation.py. *)

UrlAlphabet == {"a", ".", "/"}

RECURSIVE UrlStrings(_)
UrlStrings(n) ==
    IF n = 0
    THEN {""}
    ELSE UrlStrings(n - 1) \cup {s \o c : s \in UrlStrings(n - 1), c \in UrlAlphabet}

UrlArgs == UrlStrings(MaxUrlLen) \cup {"test", "a.b", "https://x.com", "http://"}

InitUrl ==
    /\ InitProcess
    /\ EmptyStore
    /\ users = NoUsers
    /\ foreign_keys = FALSE
    /\ observe = FALSE

\* the caller picks the argument
ChooseUrl ==
    /\ arg' \in UrlArgs
    /\ ret' = <<>>
    /\ UNCHANGED <<now, foreign_keys, store, disk, conv, tasks, observers>>

\* is_valid_url(arg) returns
CallIsValidUrl ==
    /\ ret = <<>>
    /\ ret' = <<is_valid_url(arg)>>
    /\ UNCHANGED <<now, foreign_keys, store, disk, conv, tasks, observers, arg>>

NextUrl == ChooseUrl \/ CallIsValidUrl

SpecUrl == InitUrl /\ [][NextUrl]_vars

\* C10: is_valid_url returns true for "test" and for "https://x.com", and
\* false for "a.b" (the cases of tests/test_url_validation.py).
UrlTestCases ==
    /\ arg \in {"test", "https://x.com"} /\ ret # <<>> => ret = <<TRUE>>
    /\ arg = "a.b" /\ ret # <<>> => ret = <<FALSE>>

------------------------------------------------------------------------------
(* SpecIngest: the admin in the add-video wizard, sending titles and video
   attachments, on a store that holds no category or the category "Demo"
   (the store outlives the process). *)

DemoCategory == [id |-> 1, name |-> "Demo"]

InitIngest ==
    /\ InitProcess
    /\ users = NoUsers
    /\ categories \in {{}, {DemoCategory}}
    /\ cat_seq = Cardinality(categories)
    /\ videos = {}
    /\ vid_seq = 0
    /\ files = {}
    /\ uuid_seq = 0
    /\ foreign_keys = FALSE
    /\ observe = TRUE

NextIngest ==
    \/ VideoAddClick({ADMIN_ID})
    \/ MessageBy({ADMIN_ID}, TextMessages({"Clip"}) \cup MediaMessages({"video"}))
    \/ DownloadEnds
    \/ ThumbnailEnds
    \/ NoCategoriesResumes
    \/ SelectCategoryClick({ADMIN_ID})

SpecIngest == InitIngest /\ [][NextIngest]_vars

\* a task between reading its user's conversation state (video on_message,
\* line 405) and writing it back (line 536)
InTransition(t) == t.kind \in {"download", "thumbnail"}

\* C4: for each user at most one state-machine transition is in flight: no
\* two events of one user are both between reading the user's
\* conversation state and writing it back.
OneTransitionInFlight ==
    \A t1 \in tasks, t2 \in tasks :
        (t1.user = t2.user /\ InTransition(t1) /\ InTransition(t2)) => t1 = t2

\* the context an ingestion that stored t.path without a thumbnail leaves
FileWithoutThumbnail(t) ==
    [EmptyContext EXCEPT !.title = t.title, !.type = "file", !.path_or_url = t.path]

------------------------------------------------------------------------------
(* SpecFlows: two authorized users, the admin and a user whose grant is in
   the users table, each starting and cancelling the category and the video
   flows and sending a text of their own (taken as category name, as title
   and as link, by the state its sender is in). *)

OtherUser == CHOOSE u \in Users : u # ADMIN_ID

\* the text each user sends
OwnText(u) == IF u = ADMIN_ID THEN "One" ELSE "Two"

InitFlows ==
    /\ InitProcess
    /\ EmptyStore
    /\ users = [u \in {OtherUser} |-> ACCESS_TIMEOUT]
    /\ foreign_keys = FALSE
    /\ observe = TRUE

NextFlows ==
    \/ \E u \in Users : MessageBy({u}, TextMessages({OwnText(u)}))
    \/ DispatchResumes
    \/ NoCategoriesResumes
    \/ CategoryAddClick(Users)
    \/ BackToCategoriesClick(Users)
    \/ VideoAddClick(Users)
    \/ BackToVideosClick(Users)

SpecFlows == InitFlows /\ [][NextFlows]_vars

\* what the three user_states maps hold for u: per map, the set holding
\* the value of key u (empty when the key is absent)
ConversationOf(u, auth, cat, vid) ==
    <<{auth[x] : x \in DOMAIN auth \cap {u}},
      {cat[x] : x \in DOMAIN cat \cap {u}},
      {vid[x] : x \in DOMAIN vid \cap {u}}>>

\* C3: for distinct users A and B, a handler run for B never touches A's
\* conversation phase or context: A's state in every flow changes only in
\* steps handling A's own events, and the context of A holds nothing but
\* what A sent.
UserIsolation ==
    /\ [][\A u \in Users :
            ConversationOf(u, auth_states', cat_states', vid_states')
                # ConversationOf(u, auth_states, cat_states, vid_states)
            => actor' = u]_vars
    /\ [](\A u \in DOMAIN vid_states :
            vid_states[u].context.title \in {None, OwnText(u)})

\* C3 witness: both users are in the video wizard at once, each with the
\* title it sent
BothInWizard ==
    /\ Users \subseteq DOMAIN vid_states
    /\ \A u \in Users : vid_states[u].context.title = OwnText(u)

\* C5: each user has a state in at most one of the three flows.
AtMostOneFlow ==
    \A u \in Users :
        Cardinality({f \in 1..3 :
            ConversationOf(u, auth_states, cat_states, vid_states)[f] # {}}) <= 1

\* C20: a text message that is no /start command, from a user with no
\* state in any of the three flows, changes no conversation state, no row
\* and no file; one from a user in the video flow's STATE_WAITING_CATEGORY
\* or STATE_CONFIRM_DELETE leaves the video states and the store unchanged.
IdleTextIgnored ==
    [][\A u \in Users :
          /\ actor' = u
          /\ event'.text # "" /\ event'.media = "none"
          /\ ~startswith(event'.text, "/start")
          => /\ ConversationOf(u, auth_states, cat_states, vid_states) = <<{}, {}, {}>>
                => UNCHANGED <<conv, store, disk>>
             /\ /\ u \in DOMAIN vid_states
                /\ vid_states[u].state \in
                      {STATE_WAITING_CATEGORY, VID_STATE_CONFIRM_DELETE}
                => vid_states' = vid_states /\ UNCHANGED store]_vars

\* C36: a message changes at most one flow.  When message_handler has
\* granted access on a message, or category on_message has created a
\* category from it, the rest of the dispatch of that message (the one
\* task it left suspended, resuming at the next handler) changes neither
\* the store nor any conversation state.
OneFlowPerMessage ==
    [][\A t \in tasks :
          /\ event.handler \in {2, 3} /\ event.answer = "success"
          /\ t.kind = "dispatch" /\ t.user = actor
          /\ t.pc = event.handler + 1 /\ t.text = event.text
          /\ Cardinality({x \in tasks : x.kind = "dispatch" /\ x.user = actor}) = 1
          /\ t \notin tasks'
          => UNCHANGED <<store, conv>>]_vars

------------------------------------------------------------------------------
(* SpecDelete: the admin deletes categories of a store that earlier runs
   filled: "Demo" holds any of a file with a thumbnail, a file without one
   and a link, "Other" holds a link; the files named by the rows are on the
   disk. *)

OtherCategory == [id |-> 2, name |-> "Other"]

Row(id, title, type, path_or_url, category_id, thumbnail_path) ==
    [id |-> id, title |-> title, type |-> type, path_or_url |-> path_or_url,
     category_id |-> category_id, thumbnail_path |-> thumbnail_path]

DemoRows ==
    {Row(1, "Clip", "file", video_path_of(1), 1, thumbnail_path_of(video_path_of(1))),
     Row(2, "Clip", "file", video_path_of(2), 1, None),
     Row(3, "Clip", "link", WebpageUrl, 1, None)}

OtherRows == {Row(4, "Clip", "link", WebpageUrl, 2, None)}

\* the files the rows vs name
FilesOf(vs) ==
    {v.path_or_url : v \in {x \in vs : x.type = "file"}}
    \cup {v.thumbnail_path : v \in {x \in vs : x.type = "file" /\ x.thumbnail_path # None}}

InitDelete ==
    /\ InitProcess
    /\ users = NoUsers
    /\ categories = {DemoCategory, OtherCategory}
    /\ cat_seq = 2
    /\ \E rows \in SUBSET DemoRows : videos = rows \cup OtherRows
    /\ vid_seq = 4
    /\ files = FilesOf(videos)
    /\ uuid_seq = 2
    /\ foreign_keys \in BOOLEAN
    /\ observe = TRUE

NextDelete ==
    \/ MenuClick({ADMIN_ID})
    \/ DeleteCategoryClick({ADMIN_ID})
    \/ ConfirmDeleteClick({ADMIN_ID})
    \/ BackToCategoriesClick({ADMIN_ID})

SpecDelete == InitDelete /\ [][NextDelete]_vars

\* C6: a confirmed deletion of category c removes the row of c and exactly
\* the video rows of c in one step, and leaves every other row as it was.
CategoryDeletionAtomic ==
    [][\A c \in categories :
          c \notin categories'
          => /\ categories' = categories \ {c}
             /\ videos' = {v \in videos : v.category_id # c.id}]_vars

\* C7: on a confirmed deletion of category c, the removal of the video
\* file, and of the thumbnail when one is recorded, is attempted for every
\* file video of c, and no removal is attempted for a link video.
CategoryFilesRemovalAttempted ==
    [][\A c \in categories :
          c \notin categories'
          => /\ \A v \in get_videos_by_category(c.id) :
                   v.type = "file"
                   => /\ v.path_or_url \in removals'
                      /\ v.thumbnail_path # None => v.thumbnail_path \in removals'
             /\ removals' \subseteq FilesOf(get_videos_by_category(c.id))]_vars

------------------------------------------------------------------------------
(* SpecRoundTrip: on an empty store the admin adds one category and then
   one video, answering each prompt of the bot with the text it asks for
   (or a blank one) and waiting for the bot's answer before clicking on. *)

RoundTripUrls == {WebpageUrl, "http://example.com/v"}

Prompted(states, state) ==
    /\ ADMIN_ID \in DOMAIN states
    /\ states[ADMIN_ID].state = state

InitRoundTrip ==
    /\ InitProcess
    /\ EmptyStore
    /\ users = NoUsers
    /\ foreign_keys \in BOOLEAN
    /\ observe = TRUE

\* the admin answers the prompt on the screen, and sends /start when there
\* is none
AnswerPrompt ==
    \/ /\ ADMIN_ID \notin DOMAIN cat_states \cup DOMAIN vid_states
       /\ MessageBy({ADMIN_ID}, TextMessages({"/start"}))
    \/ /\ Prompted(cat_states, STATE_WAITING_CATEGORY_NAME)
       /\ MessageBy({ADMIN_ID}, TextMessages({"Demo", " "}))
    \/ /\ Prompted(vid_states, STATE_WAITING_TITLE)
       /\ MessageBy({ADMIN_ID}, TextMessages({"Clip", " "}))
    \/ /\ Prompted(vid_states, STATE_WAITING_VIDEO)
       /\ MessageBy({ADMIN_ID}, TextMessages(RoundTripUrls))

NextRoundTrip ==
    \/ AnswerPrompt
    \/ DispatchResumes
    \/ MenuClick({ADMIN_ID})
    \/ /\ categories = {} /\ tasks = {} /\ ADMIN_ID \notin DOMAIN vid_states
       /\ CategoryAddClick({ADMIN_ID})
    \/ /\ categories # {} /\ videos = {} /\ tasks = {}
       /\ ADMIN_ID \notin DOMAIN cat_states
       /\ VideoAddClick({ADMIN_ID})
    \/ BackToCategoriesClick({ADMIN_ID})
    \/ BackToVideosClick({ADMIN_ID})
    \/ SelectCategoryClick({ADMIN_ID})
    \/ BrowseClick({ADMIN_ID})

SpecRoundTrip == InitRoundTrip /\ [][NextRoundTrip]_vars

\* the one entry a browse of "Demo" sends for the link video "Clip"
ClipEntries ==
    {<<[title |-> "Clip", button |-> "url", url |-> url]>> : url \in RoundTripUrls}

\* C8: after category "Demo" was added to the empty store and the wizard
\* completed with title "Clip", a text URL and category "Demo", browsing
\* "Demo" sends exactly one entry, titled "Clip", with the URL button and no
\* play_video button.
RoundTrip ==
    \A c \in categories :
        /\ c.name = "Demo"
        /\ videos = {} => on_browse_category_sends(ADMIN_ID, c.id) = <<>>
        /\ videos # {} =>
              /\ on_browse_category_sends(ADMIN_ID, c.id) \in ClipEntries
              /\ \A v \in videos :
                    on_browse_category_sends(ADMIN_ID, c.id)[1].url = v.path_or_url
        /\ sent # <<>> => sent = on_browse_category_sends(ADMIN_ID, c.id)

\* C8 witness: the browse of "Demo" has sent the one entry of "Clip"
ClipBrowsed == sent \in ClipEntries

------------------------------------------------------------------------------
(* SpecExpired: a user whose access was granted by an earlier run clicks
   every button and answers the prompts of the add-video wizard, on a store
   that holds the category "Demo" with a file video, while the access runs
   out. *)

InitExpired ==
    /\ InitProcess
    /\ users = [u \in {OtherUser} |-> ACCESS_TIMEOUT]
    /\ categories = {DemoCategory}
    /\ cat_seq = 1
    /\ videos = {Row(1, "Clip", "file", video_path_of(1), 1,
                     thumbnail_path_of(video_path_of(1)))}
    /\ vid_seq = 1
    /\ files = FilesOf(videos)
    /\ uuid_seq = 1
    /\ foreign_keys = FALSE
    /\ observe = TRUE

\* the user answers a prompt of the add-video wizard (title, then link)
AnswerVideoPrompt ==
    /\ OtherUser \notin DOMAIN cat_states
    /\ OtherUser \in DOMAIN vid_states
    /\ vid_states[OtherUser].state \in {STATE_WAITING_TITLE, STATE_WAITING_VIDEO}
    /\ MessageBy({OtherUser}, TextMessages({"Clip"}))

NextExpired ==
    \/ AnswerVideoPrompt
    \/ MenuClick({OtherUser})
    \/ BrowseClick({OtherUser})
    \/ CategoryAddClick({OtherUser})
    \/ DeleteCategoryClick({OtherUser})
    \/ ConfirmDeleteClick({OtherUser})
    \/ BackToCategoriesClick({OtherUser})
    \/ BackToMainClick({OtherUser})
    \/ VideoAddClick({OtherUser})
    \/ DeleteVideoClick({OtherUser})
    \/ ConfirmDeleteVideoClick({OtherUser})
    \/ BackToVideosClick({OtherUser})
    \/ SelectCategoryClick({OtherUser})
    \/ Tick

SpecExpired == InitExpired /\ [][NextExpired]_vars

\* C14: a button click of a user for whom check_access is false at that
\* moment changes neither the store, nor the files, nor any conversation
\* state, nor the suspended tasks; nothing is removed and no video entry is
\* sent.
UnauthorizedClickChangesNothing ==
    [][\A u \in Users :
          actor' = u /\ event'.token # "" /\ ~check_access(u) =>
              /\ UNCHANGED <<store, disk, conv, tasks>>
              /\ removals' = {}
              /\ sent' = <<>>]_vars

\* C14 witness: the user, after the access ran out, has clicked "Yes,
\* delete" for a video they had selected while authorized; the row is
\* still there
ExpiredUserConfirmedDelete ==
    /\ actor = OtherUser
    /\ event.token = "confirm_delete_video_1"
    /\ ~check_access(OtherUser)
    /\ OtherUser \in DOMAIN vid_states
    /\ vid_states[OtherUser].state = VID_STATE_CONFIRM_DELETE
    /\ get_video(1) # {}

------------------------------------------------------------------------------
(* SpecCategory: the admin in the add-category flow, on a store that is
   empty or holds the category "Demo": starts the flow, sends a name (one
   that may be there already, one with blanks around it, a blank one) and
   cancels. *)

CategoryTexts == {"Demo", " New ", " "}

InitCategory ==
    /\ InitProcess
    /\ users = NoUsers
    /\ categories \in {{}, {DemoCategory}}
    /\ cat_seq = Cardinality(categories)
    /\ videos = {}
    /\ vid_seq = 0
    /\ files = {}
    /\ uuid_seq = 0
    /\ foreign_keys = FALSE
    /\ observe = TRUE

NextCategory ==
    \/ MessageBy({ADMIN_ID}, TextMessages(CategoryTexts))
    \/ DispatchResumes
    \/ CategoryAddClick({ADMIN_ID})
    \/ BackToCategoriesClick({ADMIN_ID})

SpecCategory == InitCategory /\ [][NextCategory]_vars

CategoryNamesDistinct ==
    /\ [](\A c \in categories :
            /\ c.name # ""
            /\ \A d \in categories : d.name = c.name => d = c)
    /\ [][\A u \in Users :
             /\ actor' = u /\ event'.handler = 3
             /\ \E c \in categories : c.name = strip(event'.text)
             => categories' = categories]_vars

\* two categories are there and the admin has submitted the name of one
\* of them again
SecondNameRefused ==
    /\ Cardinality(categories) = 2
    /\ actor = ADMIN_ID
    /\ event.handler = 3
    /\ event.answer = "error"
    /\ \E c \in categories : c.name = strip(event.text)

------------------------------------------------------------------------------
(* SpecCancel: the admin starts, confirms and cancels the flows of both
   handlers by their buttons, on a store that holds the category "Demo" with
   a file video. *)

InitCancel ==
    /\ InitProcess
    /\ users = NoUsers
    /\ categories = {DemoCategory}
    /\ cat_seq = 1
    /\ videos = {Row(1, "Clip", "file", video_path_of(1), 1,
                     thumbnail_path_of(video_path_of(1)))}
    /\ vid_seq = 1
    /\ files = FilesOf(videos)
    /\ uuid_seq = 1
    /\ foreign_keys \in BOOLEAN
    /\ observe = TRUE

NextCancel ==
    \/ MenuClick({ADMIN_ID})
    \/ CategoryAddClick({ADMIN_ID})
    \/ DeleteCategoryClick({ADMIN_ID})
    \/ ConfirmDeleteClick({ADMIN_ID})
    \/ BackToCategoriesClick({ADMIN_ID})
    \/ VideoAddClick({ADMIN_ID})
    \/ DeleteVideoClick({ADMIN_ID})
    \/ ConfirmDeleteVideoClick({ADMIN_ID})
    \/ BackToVideosClick({ADMIN_ID})

SpecCancel == InitCancel /\ [][NextCancel]_vars

\* C16: an authorized user in the category flow's CONFIRM_DELETE state for
\* category c has no category state after clicking "Yes, delete"
\* (confirm_delete_c) and after clicking "No, cancel" (category_delete);
\* likewise in the video flow, for video v, after confirm_delete_video_v and
\* after video_delete.
ConfirmationReturnsToIdle ==
    [][\A u \in Users :
          /\ /\ actor' = u
             /\ check_access(u)
             /\ u \in DOMAIN cat_states
             /\ cat_states[u].state = CAT_STATE_CONFIRM_DELETE
             /\ event'.token \in
                   {"confirm_delete_" \o ToString(cat_states[u].category_id),
                    "category_delete"}
             => u \notin DOMAIN cat_states'
          /\ /\ actor' = u
             /\ check_access(u)
             /\ u \in DOMAIN vid_states
             /\ vid_states[u].state = VID_STATE_CONFIRM_DELETE
             /\ event'.token \in
                   {"confirm_delete_video_" \o ToString(vid_states[u].context.video_id),
                    "video_delete"}
             => u \notin DOMAIN vid_states']_vars

\* the button the prompt of a state offers to leave it: "Cancel" in the
\* wizards (back_to_categories, back_to_videos), "No, cancel" under a
\* confirmation (category_delete, video_delete)
CancelOfCategoryState(state) ==
    IF state = CAT_STATE_CONFIRM_DELETE THEN "category_delete" ELSE "back_to_categories"

CancelOfVideoState(state) ==
    IF state = VID_STATE_CONFIRM_DELETE THEN "video_delete" ELSE "back_to_videos"

\* C19: whatever state of the category flow or of the video flow a user is
\* in, and authorized or not, the user has no state in that flow after
\* clicking the Cancel button of that state.
CancelReturnsToIdle ==
    [][\A u \in Users :
          /\ /\ actor' = u
             /\ u \in DOMAIN cat_states
             /\ event'.token = CancelOfCategoryState(cat_states[u].state)
             => u \notin DOMAIN cat_states'
          /\ /\ actor' = u
             /\ u \in DOMAIN vid_states
             /\ event'.token = CancelOfVideoState(vid_states[u].state)
             => u \notin DOMAIN vid_states']_vars

\* C22: a click of an authorized user on a button of the deletion flows
\* that carries the id of a video row or of a category row that is no
\* longer there changes no row, no file and no conversation state, and is
\* answered with "not found" or an error, never with the success message.
StaleIdReported ==
    [][\A u \in Users :
          /\ \A v \in 1..vid_seq :
                /\ actor' = u /\ check_access(u)
                /\ event'.token \in {"delete_video_" \o ToString(v),
                                     "confirm_delete_video_" \o ToString(v)}
                /\ get_video(v) = {}
                => /\ UNCHANGED <<store, disk, conv>>
                   /\ event'.answer \in {"not_found", "error"}
          /\ \A c \in 1..cat_seq :
                /\ actor' = u /\ check_access(u)
                /\ event'.token \in {"delete_cat_" \o ToString(c),
                                     "confirm_delete_" \o ToString(c)}
                /\ ~\E category \in categories : category.id = c
                => /\ UNCHANGED <<store, disk, conv>>
                   /\ event'.answer \in {"not_found", "error"}]_vars

\* C27: on a confirmed deletion (of a video or of a category) no file
\* removal is attempted for a video whose row stays in the table: the
\* paths tried are paths of rows that the step deleted.
RowsDeletedBeforeFiles ==
    [][\A u \in Users :
          (actor' = u /\ startswith(event'.token, "confirm_delete_"))
          => /\ \A v \in videos :
                   {v.path_or_url, v.thumbnail_path} \cap removals' # {}
                   => v \notin videos'
             /\ removals' \subseteq FilesOf(videos \ videos')]_vars

\* C37: a category row is deleted only by a user whose category state is
\* STATE_CONFIRM_DELETE with the id of that row, and a video row (other
\* than with its category) only by a user whose video state is
\* STATE_CONFIRM_DELETE with the id of that row.
DeletedOnlyWhenConfirming ==
    [][\A u \in Users :
          actor' = u =>
             /\ \A c \in categories \ categories' :
                   /\ u \in DOMAIN cat_states
                   /\ cat_states[u] = CatState(CAT_STATE_CONFIRM_DELETE, c.id)
             /\ categories' = categories =>
                   \A v \in videos \ videos' :
                      /\ u \in DOMAIN vid_states
                      /\ vid_states[u].state = VID_STATE_CONFIRM_DELETE
                      /\ vid_states[u].context.video_id = v.id]_vars

\* C40: the video file of every video row of type "file" is on disk.
FileRowsHaveFiles ==
    \A v \in videos : v.type = "file" => v.path_or_url \in files

\* C30: the category_id of every video row is the id of a category row.
ReferentialIntegrity ==
    \A v \in videos : \E c \in categories : c.id = v.category_id

\* C23: when the write of a handler fails (the row it was to delete is
\* still there, the row it was to add is not), the store is as it was and
\* the handler's answer is not its success message: for delete_category,
\* delete_video, add_video, add_category and save_user_access.
StoreFailureReported ==
    [][\A u \in Users :
          /\ \A c \in categories :
                /\ actor' = u /\ check_access(u)
                /\ event'.token = "confirm_delete_" \o ToString(c.id)
                /\ c \in categories'
                => UNCHANGED store /\ event'.answer # "success"
          /\ \A v \in videos :
                /\ actor' = u /\ check_access(u)
                /\ event'.token = "confirm_delete_video_" \o ToString(v.id)
                /\ v \in videos'
                => UNCHANGED store /\ event'.answer # "success"
          /\ \A c \in 1..cat_seq :
                /\ actor' = u /\ check_access(u)
                /\ event'.token = "select_category_" \o ToString(c)
                /\ videos' = videos
                => UNCHANGED store /\ event'.answer # "success"
          /\ /\ actor' = u /\ event'.handler = 3
             /\ strip(event'.text) # ""
             /\ categories' = categories
             => UNCHANGED store /\ event'.answer # "success"
          /\ /\ actor' = u /\ event'.handler = 2
             /\ event'.text = ACCESS_PASSWORD
             /\ ~(u \in DOMAIN users' /\ users'[u] = now + ACCESS_TIMEOUT)
             => UNCHANGED store /\ event'.answer # "success"]_vars

------------------------------------------------------------------------------
(* The end of the add-video wizard, under SpecIngest *)

\* the row add_video writes for the context of u and category c
SelectedRow(u, c) ==
    LET context == vid_states[u].context
    IN  Row(vid_seq + 1, context.title, context.type, context.path_or_url, c,
            context.thumbnail_path)

\* u, authorized and in STATE_WAITING_CATEGORY, clicks select_category_c
SelectsCategory(u, c) ==
    /\ actor' = u
    /\ event'.token = "select_category_" \o ToString(c)
    /\ check_access(u)
    /\ u \in DOMAIN vid_states
    /\ vid_states[u].state = STATE_WAITING_CATEGORY

DownloadFailureKeepsState ==
    [][\A t \in tasks :
          (t.kind = "download" /\ tasks' = tasks \ {t})
          => /\ UNCHANGED <<store, conv>>
             /\ (t.user \in DOMAIN vid_states
                    /\ vid_states[t.user].state = STATE_WAITING_VIDEO)
                => vid_states'[t.user] =
                      VidState(STATE_WAITING_VIDEO,
                               [EmptyContext EXCEPT !.title = t.title])]_vars

\* the admin's download has failed: nothing was stored and the wizard
\* still waits for the video of "Clip"
DownloadFailed ==
    /\ actor = ADMIN_ID
    /\ event = NoEvent
    /\ tasks = {}
    /\ uuid_seq = 0
    /\ videos = {}
    /\ ADMIN_ID \in DOMAIN vid_states
    /\ vid_states[ADMIN_ID] =
          VidState(STATE_WAITING_VIDEO, [EmptyContext EXCEPT !.title = "Clip"])

------------------------------------------------------------------------------
(* SpecRemove: delete_video_files as a function, called on a link row and
   on file rows with and without a recorded thumbnail, over every content of
   the two directories and every set of paths on which os.remove raises. *)

RemoveRows ==
    {Row(1, "Clip", "file", video_path_of(1), 1, thumbnail_path_of(video_path_of(1))),
     Row(2, "Clip", "file", video_path_of(2), 1, None),
     Row(3, "Clip", "link", WebpageUrl, 1, None),
     Row(4, "Clip", "file", video_path_of(3), 1, thumbnail_path_of(video_path_of(3)))}

InitRemove ==
    /\ InitProcess
    /\ users = NoUsers
    /\ categories = {DemoCategory}
    /\ cat_seq = 1
    /\ videos = RemoveRows
    /\ vid_seq = 4
    /\ files \in SUBSET FilesOf(RemoveRows)
    /\ uuid_seq = 3
    /\ foreign_keys = FALSE
    /\ observe = FALSE

\* the directories get some content before the next call
ChooseFiles ==
    /\ ret # <<>>
    /\ files' \in SUBSET FilesOf(RemoveRows)
    /\ ret' = <<>>
    /\ UNCHANGED <<now, foreign_keys, store, uuid_seq, conv, tasks, observers, arg>>

\* delete_video_files(video) returns: ret holds the call (the row, the
\* paths on which os.remove raises, the directory contents before) and the
\* value returned
CallDeleteVideoFiles ==
    /\ ret = <<>>
    /\ \E video \in videos, failing \in SUBSET files :
          LET done == delete_video_files(video, files, failing)
          IN  /\ files' = done.files
              /\ ret' = <<[video |-> video, failing |-> failing,
                           before |-> files, result |-> done.result]>>
    /\ UNCHANGED <<now, foreign_keys, store, uuid_seq, conv, tasks, observers, arg>>

NextRemove == ChooseFiles \/ CallDeleteVideoFiles

SpecRemove == InitRemove /\ [][NextRemove]_vars

\* C21: delete_video_files returns True and leaves the directories as they
\* were for a link row; for a file row it removes the video file and the
\* recorded thumbnail when they exist (and their removal does not raise),
\* nothing else, returns True when either is missing, and returns False
\* only when a removal raises.
DeleteVideoFilesContract ==
    ret # <<>> =>
        LET c == ret[1]
            video == c.video
            paths == {video.path_or_url} \cup
                     (IF video.thumbnail_path # None THEN {video.thumbnail_path} ELSE {})
        IN  /\ video.type = "link" => c.result /\ files = c.before
            /\ video.type = "file" =>
                  /\ \A path \in paths :
                        path \in c.before /\ path \notin c.failing => path \notin files
                  /\ files \subseteq c.before
                  /\ c.before \ files \subseteq paths
                  /\ paths \cap c.failing = {} => c.result
                  /\ ~c.result => paths \cap c.failing # {}

------------------------------------------------------------------------------
(* SpecValidate: the admin in the add-category and add-video wizards,
   sending a blank text, the text "Clip" and an attachment that is a
   document but no video, on a store that holds no category or the
   category "Demo". *)

InitValidate ==
    /\ InitProcess
    /\ users = NoUsers
    /\ categories \in {{}, {DemoCategory}}
    /\ cat_seq = Cardinality(categories)
    /\ videos = {}
    /\ vid_seq = 0
    /\ files = {}
    /\ uuid_seq = 0
    /\ foreign_keys = FALSE
    /\ observe = TRUE

NextValidate ==
    \/ CategoryAddClick({ADMIN_ID})
    \/ VideoAddClick({ADMIN_ID})
    \/ MessageBy({ADMIN_ID}, TextMessages({" ", "Clip"}) \cup MediaMessages({"document"}))
    \/ DispatchResumes
    \/ NoCategoriesResumes
    \/ BackToCategoriesClick({ADMIN_ID})
    \/ BackToVideosClick({ADMIN_ID})

SpecValidate == InitValidate /\ [][NextValidate]_vars

\* C24: a handler that rejects its input changes nothing: category
\* on_message on a name that is empty once stripped, video on_message on
\* such a title in STATE_WAITING_TITLE and on an attachment that is no
\* video in STATE_WAITING_VIDEO each leave the conversation states, the
\* store and the directories as they were.
ValidationFailureChangesNothing ==
    [][\A u \in Users :
          /\ /\ actor' = u /\ event'.handler = 3
             /\ strip(event'.text) = ""
             => UNCHANGED <<store, disk, conv>>
          /\ /\ actor' = u /\ event'.handler = 4
             /\ vid_states[u].state = STATE_WAITING_TITLE
             /\ strip(event'.text) = ""
             => UNCHANGED <<store, disk, conv>>
          /\ /\ actor' = u /\ event'.handler = 4
             /\ vid_states[u].state = STATE_WAITING_VIDEO
             /\ event'.media = "document"
             => UNCHANGED <<store, disk, conv>>]_vars

\* the admin, asked for the video of "Clip", has sent a document that is
\* no video
DocumentRejected ==
    /\ event.handler = 4
    /\ event.media = "document"
    /\ actor = ADMIN_ID
    /\ ADMIN_ID \in DOMAIN vid_states
    /\ vid_states[ADMIN_ID].state = STATE_WAITING_VIDEO
    /\ vid_states[ADMIN_ID].context.title = "Clip"

------------------------------------------------------------------------------
(* SpecWorker: the admin uploads a video while a second authorized user
   adds the category "New", on a store that holds no category or the
   category "Demo". *)

InitWorker ==
    /\ InitProcess
    /\ users = [u \in {OtherUser} |-> ACCESS_TIMEOUT]
    /\ categories \in {{}, {DemoCategory}}
    /\ cat_seq = Cardinality(categories)
    /\ videos = {}
    /\ vid_seq = 0
    /\ files = {}
    /\ uuid_seq = 0
    /\ foreign_keys = FALSE
    /\ observe = TRUE

NextWorker ==
    \/ VideoAddClick({ADMIN_ID})
    \/ MessageBy({ADMIN_ID}, TextMessages({"Clip"}) \cup MediaMessages({"video"}))
    \/ DownloadEnds
    \/ ThumbnailEnds
    \/ NoCategoriesResumes
    \/ CategoryAddClick({OtherUser})
    \/ MessageBy({OtherUser}, TextMessages({"New"}))
    \/ DispatchResumes
    \/ BackToCategoriesClick({OtherUser})

SpecWorker == InitWorker /\ [][NextWorker]_vars

\* C26: the thumbnail is a job of its own that only its conversation waits
\* for: when a download ends with a file, the handler is left suspended on
\* a thumbnail job (no thumbnail written, no conversation state changed
\* yet), and while that job runs the events of other users are handled
\* without ending it and without touching the state of its user.
ThumbnailOffLoop ==
    [][\A t \in tasks :
          /\ (t.kind = "download" /\ t \notin tasks' /\ files' # files)
             => /\ \E job \in tasks' :
                      /\ job.kind = "thumbnail" /\ job.user = t.user
                      /\ job.path \in files'
                      /\ thumbnail_path_of(job.path) \notin files'
                /\ UNCHANGED conv
          /\ (t.kind = "thumbnail" /\ actor' # t.user)
             => /\ t \in tasks'
                /\ files' = files
                /\ \A u \in {t.user} \cap DOMAIN vid_states :
                      u \in DOMAIN vid_states' /\ vid_states'[u] = vid_states[u]]_vars

\* while the admin's thumbnail job runs, the other user's category "New"
\* has been added and their dispatch has run to its end
HandledWhileThumbnailRuns ==
    /\ \E t \in tasks : t.kind = "thumbnail" /\ t.user = ADMIN_ID
    /\ \A t \in tasks : t.user # OtherUser
    /\ \E c \in categories : c.name = "New"
    /\ OtherUser \notin DOMAIN cat_states
    /\ actor = OtherUser

------------------------------------------------------------------------------
(* SpecRows: the admin in the video flows on a store that holds the
   category "Demo" and no video: starts the wizard, sends a title, a blank
   text or a video, asks for the deletion of a video, and
   clicks a category button of an earlier prompt in whatever state the
   conversation is in.  A message is sent once the one before it is dealt
   with. *)

InitRows ==
    /\ InitProcess
    /\ users = NoUsers
    /\ categories = {DemoCategory}
    /\ cat_seq = 1
    /\ videos = {}
    /\ vid_seq = 0
    /\ files = {}
    /\ uuid_seq = 0
    /\ foreign_keys = FALSE
    /\ observe = TRUE

\* the admin sends the next message once the last one is dealt with
AnswerWhenIdle ==
    /\ tasks = {}
    /\ MessageBy({ADMIN_ID}, TextMessages({"Clip", " "}) \cup MediaMessages({"video"}))

NextRows ==
    \/ VideoAddClick({ADMIN_ID})
    \/ AnswerWhenIdle
    \/ DownloadEnds
    \/ ThumbnailEnds
    \/ SelectCategoryClick({ADMIN_ID})
    \/ DeleteVideoClick({ADMIN_ID})
    \/ BackToVideosClick({ADMIN_ID})

SpecRows == InitRows /\ [][NextRows]_vars

\* C29: every video row has a title that is not empty, a type that is
\* "file" or "link" and a path or URL; and a select_category click of a
\* user whose video state is STATE_WAITING_TITLE, STATE_WAITING_VIDEO or
\* STATE_CONFIRM_DELETE adds no row.
VideoRowsWellFormed ==
    /\ [](\A v \in videos :
            /\ v.title \notin {None, ""}
            /\ v.type \in {"file", "link"}
            /\ v.path_or_url # None)
    /\ [][\A u \in Users :
             /\ actor' = u /\ startswith(event'.token, "select_category_")
             /\ u \in DOMAIN vid_states
             /\ vid_states[u].state \in {STATE_WAITING_TITLE, STATE_WAITING_VIDEO,
                                          VID_STATE_CONFIRM_DELETE}
             => videos' = videos /\ event'.answer = "error"]_vars

\* a video is stored, its deletion is asked for, and the category button
\* clicked in STATE_CONFIRM_DELETE has added nothing
SelectionWithoutContextRefused ==
    /\ actor = ADMIN_ID
    /\ event.token = "select_category_1"
    /\ event.answer = "error"
    /\ Cardinality(videos) = 1
    /\ ADMIN_ID \in DOMAIN vid_states
    /\ vid_states[ADMIN_ID].state = VID_STATE_CONFIRM_DELETE

------------------------------------------------------------------------------
(* SpecOrphan: the admin uploads a video, on a store that holds no category
   or the category "Demo", and cancels the wizard or picks the category.  A
   message is sent once the one before it is dealt with. *)

InitOrphan ==
    /\ InitProcess
    /\ users = NoUsers
    /\ categories \in {{}, {DemoCategory}}
    /\ cat_seq = Cardinality(categories)
    /\ videos = {}
    /\ vid_seq = 0
    /\ files = {}
    /\ uuid_seq = 0
    /\ foreign_keys = FALSE
    /\ observe = TRUE

\* the admin answers the prompts of the wizard
AnswerUpload ==
    /\ tasks = {}
    /\ MessageBy({ADMIN_ID}, TextMessages({"Clip"}) \cup MediaMessages({"video"}))

NextOrphan ==
    \/ VideoAddClick({ADMIN_ID})
    \/ AnswerUpload
    \/ DownloadEnds
    \/ ThumbnailEnds
    \/ NoCategoriesResumes
    \/ BackToVideosClick({ADMIN_ID})
    \/ SelectCategoryClick({ADMIN_ID})

SpecOrphan == InitOrphan /\ [][NextOrphan]_vars

\* the downloaded files that the context of user u holds
ContextFiles(u) ==
    IF u \in DOMAIN vid_states /\ vid_states[u].context.type = "file"
    THEN {vid_states[u].context.path_or_url, vid_states[u].context.thumbnail_path} \cap files
    ELSE {}

\* C31: when a user in STATE_WAITING_CATEGORY with a downloaded file
\* cancels (back_to_videos), or show_category_selection resets the wizard
\* for want of a category, the directories are as they were (the video
\* and its thumbnail stay) and no video row holds their paths.
CancelOrphansFiles ==
    [][\A u \in Users :
          /\ \/ actor' = u /\ event'.token = "back_to_videos"
             \/ \E t \in tasks : t.kind = "no_categories" /\ t.user = u /\ t \notin tasks'
          /\ u \in DOMAIN vid_states
          /\ vid_states[u].state = STATE_WAITING_CATEGORY
          => /\ files' = files
             /\ u \notin DOMAIN vid_states'
             /\ \A v \in videos' :
                   /\ v.path_or_url \notin ContextFiles(u)
                   /\ v.thumbnail_path \notin ContextFiles(u)]_vars

\* the admin has cancelled the wizard: a video and its thumbnail are on
\* disk, and there is neither a row nor a conversation that holds them
OrphanedAfterCancel ==
    /\ actor = ADMIN_ID
    /\ event.token = "back_to_videos"
    /\ tasks = {}
    /\ videos = {}
    /\ ADMIN_ID \notin DOMAIN vid_states
    /\ {video_path_of(1), thumbnail_path_of(video_path_of(1))} \subseteq files

\* C34: a user without a video state (as after a handled Cancel) gets one
\* only by their own click on video_add or on a delete_video button: no
\* download that was in flight puts them into STATE_WAITING_CATEGORY.
IdleUntilStarted ==
    [][\A u \in Users :
          (u \notin DOMAIN vid_states /\ u \in DOMAIN vid_states')
          => /\ actor' = u
             /\ \/ event'.token = "video_add"
                \/ \E v \in 1..vid_seq : event'.token = "delete_video_" \o ToString(v)]_vars

------------------------------------------------------------------------------
(* SpecThumbnail: _generate as a function, called on videos of up to
   MaxFrames frames of up to MaxSide x MaxSide pixels. *)

InitThumbnail ==
    /\ InitProcess
    /\ EmptyStore
    /\ users = NoUsers
    /\ foreign_keys = FALSE
    /\ observe = FALSE

\* the caller gets ready for the next video
NextVideo ==
    /\ ret # <<>>
    /\ ret' = <<>>
    /\ UNCHANGED <<now, foreign_keys, store, disk, conv, tasks, observers, arg>>

\* _generate returns
CallGenerate ==
    /\ ret = <<>>
    /\ \E total_frames \in 0..MaxFrames, width \in 1..MaxSide, height \in 1..MaxSide :
          ret' = <<[total_frames |-> total_frames, width |-> width, height |-> height,
                    result |-> generate(total_frames, width, height)]>>
    /\ UNCHANGED <<now, foreign_keys, store, disk, conv, tasks, observers, arg>>

NextThumbnail == NextVideo \/ CallGenerate

SpecThumbnail == InitThumbnail /\ [][NextThumbnail]_vars

\* C32: for a frame of width >= 1 and height >= 1 the size computed has
\* its longer side equal to 320, its shorter side equal to
\* floor(320 * shorter / longer), and both sides at least 1; the frame
\* read is frame floor(total / 2), and a video of 0 frames yields no
\* thumbnail.
ThumbnailSize ==
    ret # <<>> =>
        LET call_ == ret[1]
            size == call_.result
            longer == IF call_.height > call_.width THEN call_.height ELSE call_.width
            shorter == IF call_.height > call_.width THEN call_.width ELSE call_.height
        IN  /\ call_.total_frames = 0 => ~size.made
            /\ call_.total_frames > 0 =>
                  /\ size.frame = call_.total_frames \div 2
                  /\ (IF size.height > size.width THEN size.height ELSE size.width) = 320
                  /\ (IF call_.height > call_.width THEN size.width ELSE size.height)
                        = (320 * shorter) \div longer
                  /\ size.width >= 1
                  /\ size.height >= 1

------------------------------------------------------------------------------
(* SpecLapse: a user whose access was granted by an earlier run starts the
   add-category flow and the add-video wizard and answers their prompts with
   the text "New", on a store that holds no category or the category
   "Demo", while the access runs out. *)

InitLapse ==
    /\ InitProcess
    /\ users = [u \in {OtherUser} |-> ACCESS_TIMEOUT]
    /\ categories \in {{}, {DemoCategory}}
    /\ cat_seq = Cardinality(categories)
    /\ videos = {}
    /\ vid_seq = 0
    /\ files = {}
    /\ uuid_seq = 0
    /\ foreign_keys = FALSE
    /\ observe = TRUE

NextLapse ==
    \/ CategoryAddClick({OtherUser})
    \/ BackToCategoriesClick({OtherUser})
    \/ VideoAddClick({OtherUser})
    \/ SelectCategoryClick({OtherUser})
    \/ MessageBy({OtherUser}, TextMessages({"New"}))
    \/ DispatchResumes
    \/ NoCategoriesResumes
    \/ Tick

SpecLapse == InitLapse /\ [][NextLapse]_vars

\* C33: an event of a user for whom check_access is false when it is
\* handled leaves the rows of the categories and of the videos as they
\* were.
UnauthorizedEventKeepsRows ==
    [][\A u \in Users :
          actor' = u /\ ~check_access(u)
          => categories' = categories /\ videos' = videos]_vars

------------------------------------------------------------------------------
(* SpecOnce: one run of the add-video wizard.  The admin presses "add"
   once, as the first event, on a store that holds the category "Demo" and
   no video, and then sends the title, a video and texts, and clicks the
   category button and Cancel, in any order and at any moment. *)

InitOnce ==
    /\ InitProcess
    /\ users = NoUsers
    /\ categories = {DemoCategory}
    /\ cat_seq = 1
    /\ videos = {}
    /\ vid_seq = 0
    /\ files = {}
    /\ uuid_seq = 0
    /\ foreign_keys = FALSE
    /\ observe = TRUE

\* the one press of "add": the first event of the run
StartOnce ==
    /\ actor = 0
    /\ VideoAddClick({ADMIN_ID})

NextOnce ==
    \/ StartOnce
    \/ MessageBy({ADMIN_ID}, TextMessages({"Clip"}) \cup MediaMessages({"video"}))
    \/ DownloadEnds
    \/ ThumbnailEnds
    \/ SelectCategoryClick({ADMIN_ID})
    \/ BackToVideosClick({ADMIN_ID})

SpecOnce == InitOnce /\ [][NextOnce]_vars

\* C38: one press of "add" results in at most one video row.
OneRowPerStart == Cardinality(videos) <= 1

\* C39: a video row of type "link" has no thumbnail path, and the path of
\* a row of type "file" is one that save_video_file generated.
RowsMatchTheirType ==
    \A v \in videos :
        /\ v.type = "link" => v.thumbnail_path = None
        /\ v.type = "file" => \E n \in 1..uuid_seq : v.path_or_url = video_path_of(n)

\* one wizard run has stored a link and, from the upload that was in
\* flight, a file with its thumbnail
LinkAndFileStored ==
    /\ \E v \in videos : v.type = "link"
    /\ \E v \in videos : v.type = "file" /\ v.thumbnail_path # None

====
